---- MODULE Spec2Model ----
(***************************************************************************)
(* Model of src/display_control.rs (display-switch): the display label     *)
(* functions, the DDC/CI input switch of one display handle, and the       *)
(* external command runner.                                                *)
(***************************************************************************)
EXTENDS Integers, Sequences, FiniteSets, TLC

\* ------------------------------------------------------------------------
\* Bounds of the model
\* ------------------------------------------------------------------------
NumHandles == 2      \* display handles switched by one batch
MaxDisplays == 2     \* longest display collection given to are_display_names_unique
MaxLen == 3          \* longest command line, in characters

\* ------------------------------------------------------------------------
\* Program constants
\* ------------------------------------------------------------------------
INPUT_SELECT == 96   \* 0x60, VCP feature code for input select

VARIABLES
    \* --- DDC/CI switch executor ---
    hw,            \* hw[d]: 16-bit value the display d reports for register 0x60
    input,         \* input.value() of the desired InputSource (u16)
    cur,           \* handle the current call of try_switch_display works on
    callState,     \* position of the current call
    readResult,    \* result of handle.get_vcp_feature, <<>> before the read
    writeResult,   \* result of handle.set_vcp_feature, <<>> before the write
    ops,           \* hardware operations issued by the current call, in order
    log,           \* log records emitted by the current call, in order
    ret,           \* "Running" while the call runs, then what it returned
    reads,         \* reads[d]: read attempts made on handle d in this batch
    final,         \* final[d]: state in which the call on handle d ended
    \* --- external command runner ---
    cmdLine,       \* the command line the configuration may hold
    cfg,           \* cfg[dir]: Option<&str> given by execute_command(dir)
    cmdPhase,      \* "Ready" before switch() is called, "Done" after
    dirArg,        \* switch_direction of the call made
    runs,          \* command lines run_command was called with, in order
    spawned,       \* argument vectors of the processes spawned, in order
    outcome,       \* what the spawned process did, <<>> when none was spawned
    cmdResult,     \* Result<()> of try_run_command, <<>> when it was not called
    cmdLog,        \* log records emitted by run_command, in order
    \* --- display identity ---
    displays,      \* the display collection (Display.info of each display)
    namePhase,     \* "Ready" | "Named" | "Checked"
    nameArg,       \* <<display position, index>> given to display_name
    nameRes,       \* the String display_name returned
    uniqueRes      \* the bool are_display_names_unique returned

ddcVars == <<hw, input, cur, callState, readResult, writeResult, ops, log, ret, reads, final>>
cmdVars == <<cmdLine, cfg, cmdPhase, dirArg, runs, spawned, outcome, cmdResult, cmdLog>>
nameVars == <<displays, namePhase, nameArg, nameRes, uniqueRes>>
vars == <<ddcVars, cmdVars, nameVars>>

\* Option<T> is a sequence of length at most one
None == <<>>
Some(x) == <<x>>

\* ========================================================================
\* DDC/CI switch executor
\* ========================================================================
Handles == 1..NumHandles

\* u16 values a display may answer with; 271 = 0x010F and 273 = 0x0111 carry
\* a non-zero high byte
RawValues == {15, 17, 271, 273}
\* input.value() of the inputs a caller may ask for (u16)
InputValues == {15, 17, 271}

Ok(v) == <<"Ok", v>>
Err == <<"Err">>

LogRec(level, what) == [level |-> level, what |-> what]

\* raw_source.value() & 0xff == input.value()
AlreadySet_NoMask(raw, in) == raw = in
AlreadySet(raw, in) == (raw % 256) = in

\* The first match of try_switch_display: return early or fall through to the write
ReadDecision_ErrReturns(res, in) ==
    IF res[1] = "Ok" /\ ~AlreadySet(res[2], in) THEN "write" ELSE "return"
ReadDecision(res, in) ==
    IF res[1] = "Ok" /\ AlreadySet(res[2], in) THEN "return" ELSE "write"

\* handle.set_vcp_feature(INPUT_SELECT, input.value())
SetRequest(in) == [op |-> "set", code |-> INPUT_SELECT, value |-> in]
GetRequest == [op |-> "get", code |-> INPUT_SELECT]

\* The second match of try_switch_display: where the call goes after the write
WriteOutcome_Retry(res) == IF res[1] = "Ok" THEN "Succeeded" ELSE "ReadAttempted"
WriteOutcome(res) == IF res[1] = "Ok" THEN "Succeeded" ELSE "Failed"

\* What try_switch_display hands back after the write: () in both arms
WriteReturn_Propagate(res) == IF res[1] = "Ok" THEN "Unit" ELSE "Err"
WriteReturn(res) == "Unit"

Terminal == {"AlreadyCorrect", "Succeeded", "Failed"}

\* try_switch_display, entry to the return of handle.get_vcp_feature(INPUT_SELECT)
GetVcpFeature ==
    /\ callState = "Idle"
    /\ \E ok \in BOOLEAN :
         readResult' = IF ok THEN Ok(hw[cur]) ELSE Err
    /\ ops' = Append(ops, GetRequest)
    /\ reads' = [reads EXCEPT ![cur] = @ + 1]
    /\ callState' = "ReadAttempted"
    /\ UNCHANGED <<hw, input, cur, writeResult, log, ret, final>>
    /\ UNCHANGED <<cmdVars, nameVars>>

\* try_switch_display, the match on the read result up to the return of
\* handle.set_vcp_feature
MatchRead ==
    /\ callState = "ReadAttempted"
    /\ IF ReadDecision(readResult, input) = "return"
       THEN /\ log' = Append(log, LogRec("info", "already set"))
            /\ callState' = "AlreadyCorrect"
            /\ ret' = "Unit"
            /\ final' = [final EXCEPT ![cur] = "AlreadyCorrect"]
            /\ UNCHANGED <<hw, writeResult, ops>>
       ELSE /\ log' = log \o (IF readResult[1] = "Err"
                                THEN <<LogRec("warn", "failed to get current input")>>
                                ELSE <<>>)
                          \o <<LogRec("debug", "setting display")>>
            /\ ops' = Append(ops, SetRequest(input))
            /\ \E ok \in BOOLEAN :
                 /\ writeResult' = IF ok THEN Ok(input) ELSE Err
                 /\ hw' = IF ok THEN [hw EXCEPT ![cur] = input] ELSE hw
            /\ callState' = "WriteAttempted"
            /\ UNCHANGED <<ret, final>>
    /\ UNCHANGED <<input, cur, readResult, reads>>
    /\ UNCHANGED <<cmdVars, nameVars>>

\* try_switch_display, the match on the write result
MatchWrite ==
    /\ callState = "WriteAttempted"
    /\ log' = Append(log, IF writeResult[1] = "Ok"
                            THEN LogRec("info", "display set")
                            ELSE LogRec("error", "failed to set display"))
    /\ callState' = WriteOutcome(writeResult)
    /\ ret' = IF WriteOutcome(writeResult) \in Terminal
                THEN WriteReturn(writeResult) ELSE ret
    /\ final' = [final EXCEPT ![cur] = WriteOutcome(writeResult)]
    /\ UNCHANGED <<hw, input, cur, readResult, writeResult, ops, reads>>
    /\ UNCHANGED <<cmdVars, nameVars>>

\* The caller of a batch: one call of try_switch_display per handle, the next
\* one made when the previous one handed back ()
NextDisplay ==
    /\ callState \in Terminal
    /\ ret = "Unit"
    /\ cur < NumHandles
    /\ cur' = cur + 1
    /\ callState' = "Idle"
    /\ readResult' = None
    /\ writeResult' = None
    /\ ops' = <<>>
    /\ log' = <<>>
    /\ ret' = "Running"
    /\ UNCHANGED <<hw, input, reads, final>>
    /\ UNCHANGED <<cmdVars, nameVars>>

DdcIdle ==
    /\ cur = 1
    /\ callState = "Idle"
    /\ readResult = None
    /\ writeResult = None
    /\ ops = <<>>
    /\ log = <<>>
    /\ ret = "Running"
    /\ reads = [d \in Handles |-> 0]
    /\ final = [d \in Handles |-> "NotCalled"]

\* ========================================================================
\* Placeholders of the other two components while the batch runs
\* ========================================================================
CmdQuiet ==
    /\ cmdLine = <<>>
    /\ cfg = <<None, None>>
    /\ cmdPhase = "Off"
    /\ dirArg = 0
    /\ runs = <<>>
    /\ spawned = <<>>
    /\ outcome = None
    /\ cmdResult = None
    /\ cmdLog = <<>>

NameQuiet ==
    /\ displays = <<>>
    /\ namePhase = "Off"
    /\ nameArg = None
    /\ nameRes = ""
    /\ uniqueRes = TRUE

DdcQuiet ==
    /\ hw = [d \in Handles |-> 15]
    /\ input = 15
    /\ DdcIdle

Init ==
    /\ hw \in [Handles -> RawValues]
    /\ input \in InputValues
    /\ DdcIdle
    /\ CmdQuiet
    /\ NameQuiet

Next ==
    \/ GetVcpFeature
    \/ MatchRead
    \/ MatchWrite
    \/ NextDisplay

Spec == Init /\ [][Next]_vars

\* A hardware operation that was started returns, and the caller goes on
SpecLive ==
    /\ Init
    /\ [][Next]_vars
    /\ WF_vars(GetVcpFeature)
    /\ WF_vars(MatchRead)
    /\ WF_vars(MatchWrite)
    /\ WF_vars(NextDisplay)

\* ========================================================================
\* External command runner
\* ========================================================================
Directions == {1, 2}             \* the two SwitchDirection values

\* Characters of a command line: blank, newline, a word character, the two
\* quotes, the backslash and the comment sign
Chars == {" ", "\n", "a", "'", "\"", "\\", "#"}
CmdLines == UNION {[1..n -> Chars] : n \in 0..MaxLen}

OkUnit == <<"Ok">>
ErrMsg(m) == <<"Err", m>>
Panic == <<"Panic">>

\* The tokenizer is the shell_words crate's split, called by try_run_command.
\* Inside double quotes the crate also lets a backslash escape the dollar and
\* the backquote; neither character is in Chars.
\* One step of the scanner of shell_words::split: the state, the word being
\* built and the words finished so far, after character c
SplitStep(st, c, word, words) ==
    LET go(n, w, ws) == [state |-> n, word |-> w, words |-> ws]
        blank == c \in {" ", "\t", "\n"}
    IN CASE st = "Delimiter" ->
              IF c = "'" THEN go("SingleQuoted", word, words)
              ELSE IF c = "\"" THEN go("DoubleQuoted", word, words)
              ELSE IF c = "\\" THEN go("Backslash", word, words)
              ELSE IF blank THEN go("Delimiter", word, words)
              ELSE IF c = "#" THEN go("Comment", word, words)
              ELSE go("Unquoted", Append(word, c), words)
         [] st = "Backslash" ->
              IF c = "\n" THEN go("Delimiter", word, words)
              ELSE go("Unquoted", Append(word, c), words)
         [] st = "Unquoted" ->
              IF c = "'" THEN go("SingleQuoted", word, words)
              ELSE IF c = "\"" THEN go("DoubleQuoted", word, words)
              ELSE IF c = "\\" THEN go("UnquotedBackslash", word, words)
              ELSE IF blank THEN go("Delimiter", <<>>, Append(words, word))
              ELSE go("Unquoted", Append(word, c), words)
         [] st = "UnquotedBackslash" ->
              IF c = "\n" THEN go("Unquoted", word, words)
              ELSE go("Unquoted", Append(word, c), words)
         [] st = "SingleQuoted" ->
              IF c = "'" THEN go("Unquoted", word, words)
              ELSE go("SingleQuoted", Append(word, c), words)
         [] st = "DoubleQuoted" ->
              IF c = "\"" THEN go("Unquoted", word, words)
              ELSE IF c = "\\" THEN go("DoubleQuotedBackslash", word, words)
              ELSE go("DoubleQuoted", Append(word, c), words)
         [] st = "DoubleQuotedBackslash" ->
              IF c = "\n" THEN go("DoubleQuoted", word, words)
              ELSE IF c \in {"\"", "\\"} THEN go("DoubleQuoted", Append(word, c), words)
              ELSE go("DoubleQuoted", word \o <<"\\", c>>, words)
         [] st = "Comment" ->
              IF c = "\n" THEN go("Delimiter", word, words)
              ELSE go("Comment", word, words)

\* The scanner of shell_words::split at the end of the input
SplitEnd(st, word, words) ==
    CASE st \in {"Delimiter", "Comment"} -> <<"Ok", words>>
      [] st \in {"Backslash", "UnquotedBackslash"} ->
              <<"Ok", Append(words, Append(word, "\\"))>>
      [] st = "Unquoted" -> <<"Ok", Append(words, word)>>
      [] st \in {"SingleQuoted", "DoubleQuoted", "DoubleQuotedBackslash"} ->
              <<"Err", "missing closing quote">>

RECURSIVE SplitFrom(_, _, _, _, _)
SplitFrom(s, i, st, word, words) ==
    IF i > Len(s) THEN SplitEnd(st, word, words)
    ELSE LET n == SplitStep(st, s[i], word, words)
         IN SplitFrom(s, i + 1, n.state, n.word, n.words)

\* shell_words::split(execute_command)
split(s) == SplitFrom(s, 1, "Delimiter", <<>>, <<>>)

\* What a call of Command::output() can give
ExitCodes == {0, 1, 2}
Streams == {"empty", "utf8", "invalid"}
NoProcess == [kind |-> "none", code |-> None, stdout |-> "empty", stderr |-> "empty"]
SpawnFailed == [kind |-> "spawn_failed", code |-> None, stdout |-> "empty", stderr |-> "empty"]
ProcOutcomes ==
    {SpawnFailed}
    \cup {[kind |-> "exited", code |-> Some(c), stdout |-> o, stderr |-> e] :
               c \in ExitCodes, o \in Streams, e \in Streams}
    \cup {[kind |-> "signaled", code |-> None, stdout |-> o, stderr |-> e] :
               o \in Streams, e \in Streams}
\* an executable with an empty name cannot be started
OutcomesFor(executable) == IF executable = <<>> THEN {SpawnFailed} ELSE ProcOutcomes

\* arguments.is_empty()
is_empty_Never(arguments) == FALSE
is_empty(arguments) == arguments = <<>>

\* output.status.success()
success_AnyExit(out) == out.code # None
success(out) == out.code = Some(0)

\* let msg = if let Some(code) = output.status.code() ...
StatusMsg(out) ==
    IF out.code # None
    THEN <<"Exited with status ", ToString(out.code[1]), "\n">>
    ELSE <<"Exited because of a signal\n">>

StdoutMsg(out) ==
    IF out.stdout # "empty"
    THEN (IF out.stdout = "utf8" THEN <<"Stdout = [", "text", "]\n">>
                                 ELSE <<"Stdout was not UTF-8">>)
    ELSE <<"No stdout\n">>

StderrMsg(out) ==
    IF out.stderr # "empty"
    THEN (IF out.stderr = "utf8" THEN <<"Stderr = [", "text", "]\n">>
                                 ELSE <<"Stderr was not UTF-8">>)
    ELSE <<"No stderr\n">>

\* try_run_command: its Result<()>, the Command::output() calls it made and
\* the records it logged, when the process (if any) does `out`
try_run_command(cmd, out) ==
    LET arguments == split(cmd)
        res(r, sp, lg) == [result |-> r, spawned |-> sp, log |-> lg]
    IN IF arguments[1] = "Err" THEN res(ErrMsg(<<arguments[2]>>), <<>>, <<>>)
       ELSE IF is_empty(arguments[2]) THEN res(OkUnit, <<>>, <<>>)
       ELSE IF arguments[2] = <<>> THEN res(Panic, <<>>, <<>>)   \* remove(0) of an empty Vec
       ELSE LET argv == arguments[2]
            IN IF out.kind = "spawn_failed"
               THEN res(ErrMsg(<<"io error">>), <<argv>>, <<>>)
               ELSE IF success(out)
               THEN res(OkUnit, <<argv>>, <<LogRec("info", "executed successfully")>>)
               ELSE res(ErrMsg(StatusMsg(out) \o <<" ">> \o StdoutMsg(out)
                                  \o <<" ">> \o StderrMsg(out)),
                        <<argv>>, <<>>)

\* .unwrap_or_else(|err| error!(...))
ErrorLog_Warn(r) ==
    IF r[1] = "Err" THEN <<LogRec("warn", "error executing external command")>> ELSE <<>>
ErrorLog(r) ==
    IF r[1] = "Err" THEN <<LogRec("error", "error executing external command")>> ELSE <<>>

\* Does the command line start a process, and which executable
StartsProcess(cmd) == split(cmd)[1] = "Ok" /\ split(cmd)[2] # <<>>

\* run_command(execute_command)
run_command(cmd) ==
    \E out \in (IF StartsProcess(cmd) THEN OutcomesFor(split(cmd)[2][1]) ELSE {NoProcess}) :
        LET r == try_run_command(cmd, out)
        IN /\ runs' = Append(runs, cmd)
           /\ spawned' = spawned \o r.spawned
           /\ outcome' = IF r.spawned # <<>> THEN Some(out) ELSE None
           /\ cmdResult' = r.result
           /\ cmdLog' = cmdLog \o r.log \o ErrorLog(r.result)

\* config.default_input_sources.execute_command(switch_direction)
execute_command_Other(config, dir) == config[3 - dir]
execute_command(config, dir) == config[dir]

\* switch(config, switch_direction)
switch(dir) ==
    /\ cmdPhase = "Ready"
    /\ cmdPhase' = "Done"
    /\ dirArg' = dir
    /\ IF execute_command(cfg, dir) # None
       THEN run_command(execute_command(cfg, dir)[1])
       ELSE UNCHANGED <<runs, spawned, outcome, cmdResult, cmdLog>>
    /\ UNCHANGED <<cmdLine, cfg>>
    /\ UNCHANGED <<ddcVars, nameVars>>

InitCommand ==
    /\ cmdLine \in CmdLines
    /\ cfg \in [Directions -> {None, Some(cmdLine)}]
    /\ cmdPhase = "Ready"
    /\ dirArg = 0
    /\ runs = <<>>
    /\ spawned = <<>>
    /\ outcome = None
    /\ cmdResult = None
    /\ cmdLog = <<>>
    /\ DdcQuiet
    /\ NameQuiet

NextCommand == \E dir \in Directions : switch(dir)

SpecCommand == InitCommand /\ [][NextCommand]_vars

\* ------------------------------------------------------------------------
\* Properties of the external command runner
\* ------------------------------------------------------------------------
ErrorRecords(l) == SelectSeq(l, LAMBDA r : r.level = "error")
Blank(s) == \A i \in 1..Len(s) : s[i] \in {" ", "\n"}
Contains(m, piece) == \E i \in 1..Len(m) : m[i] = piece

\* C4: run_command on a command line that tokenizes to zero tokens returns
\* success, makes no Command::output() call and logs no error; the empty and
\* the all-blank command lines are such lines.
C4_EmptyCommandIsNoOp ==
    (cmdPhase = "Done" /\ runs # <<>>) =>
        /\ (Blank(runs[1]) => split(runs[1]) = <<"Ok", <<>>>>)
        /\ (split(runs[1]) = <<"Ok", <<>>>> =>
                /\ cmdResult = OkUnit
                /\ spawned = <<>>
                /\ outcome = None
                /\ ErrorRecords(cmdLog) = <<>>)

C4_Witness ==
    /\ cmdPhase = "Done"
    /\ runs = <<cmdLine>>
    /\ Len(cmdLine) >= 2
    /\ Blank(cmdLine)
    /\ cmdResult = OkUnit
    /\ spawned = <<>>

\* C5: for a process that ran, exit code zero gives Ok; a non-zero exit code
\* gives an Err whose message holds that code after "Exited with status ";
\* an end by signal (no exit code) gives an Err whose message says so.
C5_ExitStatusClassified ==
    (cmdPhase = "Done" /\ outcome # None /\ outcome[1].kind \in {"exited", "signaled"}) =>
        LET out == outcome[1]
        IN /\ (out.code = <<0>> => cmdResult = OkUnit)
           /\ (out.code # <<>> /\ out.code # <<0>> =>
                   /\ cmdResult[1] = "Err"
                   /\ cmdResult[2][1] = "Exited with status "
                   /\ cmdResult[2][2] = ToString(out.code[1]))
           /\ (out.code = <<>> =>
                   /\ cmdResult[1] = "Err"
                   /\ Contains(cmdResult[2], "Exited because of a signal\n"))

C5_Witness ==
    /\ cmdPhase = "Done"
    /\ outcome # None
    /\ outcome[1].kind = "exited"
    /\ outcome[1].code = <<2>>
    /\ cmdResult[1] = "Err"
    /\ Contains(cmdResult[2], "2")

\* C6: every failure of run_command (tokenization, spawn, non-zero exit,
\* signal) ends as an Err that is logged exactly once at error level while
\* run_command returns; nothing panics; a success logs no error; and after a
\* tokenization failure no Command::output() call was made.
C6_FailuresLoggedOnce ==
    (cmdPhase = "Done" /\ runs # <<>>) =>
        LET failed ==
              \/ split(runs[1])[1] = "Err"
              \/ (outcome # None /\ outcome[1].kind = "spawn_failed")
              \/ (outcome # None /\ outcome[1].kind = "signaled")
              \/ (outcome # None /\ outcome[1].kind = "exited" /\ outcome[1].code # <<0>>)
        IN /\ cmdResult # Panic
           /\ (failed <=> cmdResult[1] = "Err")
           /\ (failed => Len(ErrorRecords(cmdLog)) = 1 /\ Len(cmdLog) = 1)
           /\ (~failed => ErrorRecords(cmdLog) = <<>>)
           /\ (split(runs[1])[1] = "Err" => spawned = <<>> /\ outcome = None)

C6_Witness ==
    /\ cmdPhase = "Done"
    /\ runs # <<>>
    /\ split(runs[1])[1] = "Err"
    /\ cmdResult[1] = "Err"
    /\ Len(ErrorRecords(cmdLog)) = 1
    /\ spawned = <<>>

\* C9: switch(config, direction) calls run_command exactly once, with the
\* configured command line, when the configuration holds a command for that
\* direction; when it holds none, run_command is not called, no process is
\* spawned and nothing is logged.
C9_SwitchRunsConfiguredCommand ==
    cmdPhase = "Done" =>
        IF cfg[dirArg] # <<>>
        THEN runs = <<cfg[dirArg][1]>> /\ Len(spawned) <= 1
        ELSE runs = <<>> /\ spawned = <<>> /\ cmdLog = <<>> /\ cmdResult = <<>>

C9_Witness ==
    /\ cmdPhase = "Done"
    /\ cfg[dirArg] = <<cmdLine>>
    /\ cfg[3 - dirArg] = <<>>
    /\ runs = <<cmdLine>>
    /\ Len(spawned) = 1
    /\ cmdResult = OkUnit

\* ========================================================================
\* Display identity
\* ========================================================================
\* Values of manufacturer_id, model_name and serial_number: absent, present
\* and empty, present and non-empty
ManufacturerIds == {None, Some(""), Some("A")}
ModelNames == {None, Some(""), Some("B")}
SerialNumbers == {None, Some(""), Some("A")}
Infos == [manufacturer_id : ManufacturerIds, model_name : ModelNames,
          serial_number : SerialNumbers]
DisplayLists == UNION {[1..n -> Infos] : n \in 0..MaxDisplays}
Indexes == {None} \cup {Some(i) : i \in 0..MaxDisplays}

\* .join(" ")
RECURSIVE join(_, _)
join(parts, sep) ==
    IF parts = <<>> THEN ""
    ELSE IF Len(parts) = 1 THEN parts[1]
    ELSE parts[1] \o sep \o join(Tail(parts), sep)

\* vec![...].into_iter().flatten(): the values of the fields that are Some
flatten(options) ==
    IF options = <<>> THEN <<>>
    ELSE options[1] \o options[2] \o options[3]

\* display_name(display, index), as built on Linux
display_name(display, index) ==
    LET display_id == join(flatten(<<display.manufacturer_id,
                                     display.model_name,
                                     display.serial_number>>), " ")
    IN IF index # None
       THEN "'" \o display_id \o " #" \o ToString(index[1]) \o "'"
       ELSE "'" \o display_id \o "'"

\* displays.iter().all(|display| hash.insert(display_name(display, None)))
RECURSIVE AllInsert(_, _, _)
AllInsert(ds, i, hash) ==
    IF i > Len(ds) THEN TRUE
    ELSE LET name == display_name(ds[i], None)
         IN IF name \in hash THEN FALSE
            ELSE AllInsert(ds, i + 1, hash \cup {name})

RECURSIVE AllInsertIndexed(_, _, _)
AllInsertIndexed(ds, i, hash) ==
    IF i > Len(ds) THEN TRUE
    ELSE LET name == display_name(ds[i], Some(i))
         IN IF name \in hash THEN FALSE
            ELSE AllInsertIndexed(ds, i + 1, hash \cup {name})

\* are_display_names_unique(displays)
are_display_names_unique_Indexed(ds) == AllInsertIndexed(ds, 1, {})
are_display_names_unique(ds) == AllInsert(ds, 1, {})

\* A call of display_name on one display of the collection
DisplayName ==
    /\ namePhase = "Ready"
    /\ \E k \in 1..Len(displays), index \in Indexes :
         /\ nameArg' = Some(<<k, index>>)
         /\ nameRes' = display_name(displays[k], index)
    /\ namePhase' = "Named"
    /\ UNCHANGED <<displays, uniqueRes>>
    /\ UNCHANGED <<ddcVars, cmdVars>>

\* A call of are_display_names_unique on the collection
AreDisplayNamesUnique ==
    /\ namePhase = "Ready"
    /\ uniqueRes' = are_display_names_unique(displays)
    /\ namePhase' = "Checked"
    /\ UNCHANGED <<displays, nameArg, nameRes>>
    /\ UNCHANGED <<ddcVars, cmdVars>>

InitNames ==
    /\ displays \in DisplayLists
    /\ namePhase = "Ready"
    /\ nameArg = None
    /\ nameRes = ""
    /\ uniqueRes = TRUE
    /\ DdcQuiet
    /\ CmdQuiet

NextNames ==
    \/ DisplayName
    \/ AreDisplayNamesUnique

SpecNames == InitNames /\ [][NextNames]_vars

\* ------------------------------------------------------------------------
\* Properties of display identity
\* ------------------------------------------------------------------------
\* C7: are_display_names_unique returns true exactly when the labels
\* display_name(d, None) of the displays of the collection are pairwise
\* distinct (so true for the empty collection, false with two equal labels).
C7_UniqueIffPairwiseDistinct ==
    namePhase = "Checked" =>
        (uniqueRes <=>
            \A i \in 1..Len(displays) : \A j \in 1..Len(displays) :
                i # j => display_name(displays[i], None) # display_name(displays[j], None))

C7_Witness ==
    /\ namePhase = "Checked"
    /\ Len(displays) = 2
    /\ displays[1] # displays[2]
    /\ display_name(displays[1], None) = display_name(displays[2], None)
    /\ uniqueRes = FALSE

\* The label of C8: the non-empty fields only, joined by one space
NonEmpty(option) == IF option # None /\ option[1] # "" THEN option ELSE None
ClaimedLabel(display, index) ==
    LET id == join(NonEmpty(display.manufacturer_id) \o NonEmpty(display.model_name)
                      \o NonEmpty(display.serial_number), " ")
    IN IF index # None
       THEN "'" \o id \o " #" \o ToString(index[1]) \o "'"
       ELSE "'" \o id \o "'"

\* C8: display_name returns the non-empty fields (manufacturer id, model
\* name, serial number, in that order) joined by a single space, in single
\* quotes, with " #n" before the closing quote when an index n is given; an
\* absent or empty field contributes neither text nor separator.
C8_LabelJoinsNonEmptyFields ==
    namePhase = "Named" =>
        nameRes = ClaimedLabel(displays[nameArg[1][1]], nameArg[1][2])

\* ------------------------------------------------------------------------
\* Properties of the DDC/CI switch executor
\* ------------------------------------------------------------------------
SetOps(s) == SelectSeq(s, LAMBDA o : o.op = "set")
GetOps(s) == SelectSeq(s, LAMBDA o : o.op = "get")
Returned == ret # "Running"

\* C1: when the read of register 0x60 succeeded with a value whose low byte
\* equals the desired input's encoded value, the call issues no write: once
\* the read result is matched the call has ended in AlreadyCorrect, has
\* returned (), and its list of hardware operations holds no write.
C1_NoWriteWhenAlreadySet ==
    (readResult # None /\ readResult[1] = "Ok" /\ (readResult[2] % 256) = input)
        => /\ SetOps(ops) = <<>>
           /\ callState \in {"ReadAttempted", "AlreadyCorrect"}
           /\ (callState = "AlreadyCorrect" => ret = "Unit")
           /\ (callState = "ReadAttempted" => ~Returned)

C1_Witness ==
    /\ callState = "AlreadyCorrect"
    /\ readResult[1] = "Ok"
    /\ readResult[2] > 255
    /\ (readResult[2] % 256) = input
    /\ ret = "Unit"

\* C2: a call that has returned after a failed read, or after a read whose
\* low byte differs from the desired input's encoded value, has issued
\* exactly one write, to register 0x60, of the desired input's encoded value.
C2_OneWriteOtherwise ==
    (Returned /\ (readResult = Err \/ (readResult[1] = "Ok" /\ (readResult[2] % 256) # input)))
        => SetOps(ops) = <<[op |-> "set", code |-> 96, value |-> input]>>

C2_Witness ==
    /\ Returned
    /\ readResult = Err
    /\ Len(SetOps(ops)) = 1
    /\ ops[2].code = 96
    /\ ops[2].value = input

\* C3: a call whose write failed returns () like any other, so a batch that
\* calls try_switch_display once per handle reaches every handle: every handle
\* before the current one has had its read attempt and a recorded end state,
\* and so has the current one as soon as its call has left Idle.
C3_FailedWriteReturnsNormally ==
    /\ (callState = "Failed" => ret = "Unit")
    /\ (callState \in Terminal => ret = "Unit")
    /\ \A d \in Handles :
         /\ (d < cur => reads[d] = 1 /\ final[d] \in Terminal)
         /\ (d = cur /\ callState # "Idle" => reads[d] = 1)

C3_Witness ==
    /\ cur = NumHandles
    /\ callState \in Terminal
    /\ final[1] = "Failed"
    /\ \A d \in Handles : reads[d] = 1

\* C10: a call follows Idle -> ReadAttempted -> {AlreadyCorrect |
\* WriteAttempted -> {Succeeded | Failed}}: its state changes only along
\* these edges, its hardware operations are one read followed by at most one
\* write (none repeated, the write present exactly from WriteAttempted on),
\* and a call that was started ends in one of the three terminal states.
CallEdges ==
    {<<"Idle", "ReadAttempted">>,
     <<"ReadAttempted", "AlreadyCorrect">>,
     <<"ReadAttempted", "WriteAttempted">>,
     <<"WriteAttempted", "Succeeded">>,
     <<"WriteAttempted", "Failed">>}
        \cup (Terminal \X {"Idle"})     \* the caller starts the next call

OpsShape ==
    /\ callState = "Idle" => ops = <<>>
    /\ callState \in {"ReadAttempted", "AlreadyCorrect"} => ops = <<GetRequest>>
    /\ callState \in {"WriteAttempted", "Succeeded", "Failed"}
            => ops = <<GetRequest, [op |-> "set", code |-> 96, value |-> input]>>

C10_StateMachine ==
    /\ [][callState' # callState => <<callState, callState'>> \in CallEdges]_vars
    /\ [](OpsShape /\ Len(GetOps(ops)) <= 1 /\ Len(SetOps(ops)) <= 1)
    /\ [](callState = "Idle" => <>(callState \in Terminal))

C10_Witness ==
    /\ callState = "Failed"
    /\ ops = <<GetRequest, SetRequest(input)>>
    /\ cur = NumHandles

====
